---- MODULE Spec2Model ----
(***************************************************************************)
(* Recommendation and mastery engine of the adaptive problem platform.     *)
(*                                                                         *)
(* The document store is modelled by its collections: DailyRecommendation  *)
(* and UserProgress as bags of documents (no handler depends on their      *)
(* order), TopicMastery as a sequence in insertion order (the policy's     *)
(* tie-break depends on it), the Problem catalogue and the User profiles   *)
(* as functions of the document id.  The daily-recommendation handler and *)
(* the daily cron job are split at their store round trips (awaits); a     *)
(* submission runs as one step (recordAttempt) or split at its round trips *)
(* (SubmitStart .. SubmitMastery), a mastery recomputation as one step.    *)
(* The streak request and the cleanup job are split between the read of    *)
(* the user and the update.  `out` is the answer a handler has just given; *)
(* it is delivered before the next step.  The clock counts days: `today`   *)
(* of the code is `now`.  No source file sets a record's completed flag:   *)
(* stores with completed records are initial states of StreakSpec.         *)
(***************************************************************************)
EXTENDS Integers, Sequences, FiniteSets, Bags, TLC

(* ------------------------------ bounds -------------------------------- *)
MaxTime == 1
MaxSubmits == 2
MaxDeletes == 1
MaxEnvSubmits == 1
MaxRun == 31

(* ----------------------------- universe ------------------------------- *)
\* User.find returns the users in natural order
UserOrder == <<"u1", "u2">>
Users == {UserOrder[i] : i \in 1..Len(UserOrder)}
Reqs == {1, 2}
ProblemOrder == <<"p1", "p2", "p3">>
Problems == {ProblemOrder[i] : i \in 1..Len(ProblemOrder)}
Tiers == {"easy", "medium", "hard"}
\* the topics of the seeded catalogue
SelectorTopics == {"arrays", "strings"}
LanguageEnum == {"javascript", "python", "java", "cpp", "c"}
NoDate == -1
StreakWindow == 30
NoProblem == "none"
NoTopic == "null"

SeedProblems ==
  [p \in Problems |->
     CASE p = "p1" -> [topic |-> "arrays", difficulty |-> "easy", isActive |-> TRUE, testCases |-> 1]
       [] p = "p2" -> [topic |-> "arrays", difficulty |-> "easy", isActive |-> TRUE, testCases |-> 2]
       [] OTHER    -> [topic |-> "strings", difficulty |-> "medium", isActive |-> TRUE, testCases |-> 1]]

SeedUsers ==
  [u \in Users |->
     [skillLevel |-> IF u = "u1" THEN "beginner" ELSE "intermediate",
      totalSolved |-> 0, currentStreak |-> 0, longestStreak |-> 0]]

VARIABLES now, problems, users, recs, progress, mastery, req, job, out, submits,
          recomputed, passedOnce, cleanup
\* submits counts the submissions made.  recomputed and passedOnce record
\* the past: the (user, topic) pairs whose mastery was recomputed since the
\* user's last stored attempt, and the (user, problem) pairs the judge has
\* passed at least once.

vars == <<now, problems, users, recs, progress, mastery, req, job, out, submits,
          recomputed, passedOnce, cleanup>>

(* ------------------------- sequence helpers --------------------------- *)
Indices(s) == 1..Len(s)

RECURSIVE FilterSeq(_, _)
\* the elements of s whose index is in keep, in the order of s (Array.filter)
FilterSeq(s, keep) ==
  IF s = <<>> THEN <<>>
  ELSE LET rest == FilterSeq(Tail(s), {i - 1 : i \in keep \ {1}})
       IN IF 1 \in keep THEN <<Head(s)>> \o rest ELSE rest

Min2(a, b) == IF a < b THEN a ELSE b
Max2(a, b) == IF a > b THEN a ELSE b

RECURSIVE SumOver(_, _)
\* sum of f[x] over the elements x of the finite set S
SumOver(S, f) ==
  IF S = {} THEN 0
  ELSE LET x == CHOOSE y \in S : TRUE IN f[x] + SumOver(S \ {x}, f)

RECURSIVE GCD(_, _)
GCD(a, b) == IF b = 0 THEN a ELSE GCD(b, a % b)

\* the quotient n / d of two naturals (d > 0), kept exact in lowest terms
Rat(n, d) == <<n \div GCD(n, d), d \div GCD(n, d)>>
Zero == <<0, 1>>

(* --------------------- DailyRecommendation store ---------------------- *)
RecDocs(u, d) == {x \in BagToSet(recs) : x.userId = u /\ x.date = d}

\* number of stored documents with the key (userId, date)
RecCount(u, d) == SumOver(RecDocs(u, d), [x \in RecDocs(u, d) |-> CopiesIn(x, recs)])

\* DailyRecommendation.findOne({userId, date})
FindRec(u, d) ==
  IF RecDocs(u, d) = {} THEN <<>> ELSE <<CHOOSE x \in RecDocs(u, d) : TRUE>>

\* the unique index {userId: 1, date: 1}: an insert of a second document
\* with the same key is refused (E11000)
\* variant: the collection without its unique index
RecIndexAllows_NoIndex(u, d) == TRUE

RecIndexAllows(u, d) == RecDocs(u, d) = {}

\* variant: the entry tagged with the schema-independent defaults
NewRecommendation_FixedTags(u, d, p) ==
  [userId |-> u, date |-> d,
   recommendedProblems |->
     <<[problemId |-> p, difficulty |-> "easy", topic |-> "arrays",
        reason |-> "daily_recommendation", priority |-> 1, score |-> 100]>>,
   selectedProblem |-> p, completed |-> FALSE, skipped |-> FALSE]

\* new DailyRecommendation({...}) as both creators build it; p is the
\* problem document the generator returned
NewRecommendation(u, d, p) ==
  [userId |-> u, date |-> d,
   recommendedProblems |->
     <<[problemId |-> p, difficulty |-> problems[p].difficulty,
        topic |-> problems[p].topic, reason |-> "daily_recommendation",
        priority |-> 1, score |-> 100]>>,
   selectedProblem |-> p, completed |-> FALSE, skipped |-> FALSE]

(* -------------------------- UserProgress store ------------------------ *)
ProgDocs(u, p) == {x \in BagToSet(progress) : x.userId = u /\ x.problemId = p}

\* UserProgress.findOne({userId, problemId})
FindProgress(u, p) ==
  IF ProgDocs(u, p) = {} THEN <<>> ELSE <<CHOOSE x \in ProgDocs(u, p) : TRUE>>

\* UserProgress.find({userId}) and UserProgress.find({userId, topic}), as bags
UserProgress(prog, u) ==
  LET S == {x \in BagToSet(prog) : x.userId = u}
  IN [x \in S |-> CopiesIn(x, prog)]

TopicProgress(prog, u, t) ==
  LET S == {x \in BagToSet(prog) : x.userId = u /\ x.topic = t}
  IN [x \in S |-> CopiesIn(x, prog)]

(* -------------------------- TopicMastery store ------------------------ *)

\* TopicMastery.find({userId}) in natural order
UserMasteries(ms, u) == FilterSeq(ms, {i \in Indices(ms) : ms[i].userId = u})

\* new TopicMastery({userId, topic}) with the schema defaults
NewMastery(u, t) ==
  [userId |-> u, topic |-> t, masteryLevel |-> 0,
   problemsAttempted |-> [d \in Tiers |-> 0],
   problemsSolved |-> [d \in Tiers |-> 0],
   successRates |-> [d \in Tiers \cup {"overall"} |-> Zero],
   averageAttempts |-> [d \in Tiers |-> Zero],
   recommendedDifficulty |-> "easy", lastUpdated |-> NoDate]

(* ----------------------------- mastery model -------------------------- *)
\* Math.min(Math.round(masteryScore), 100) with
\* masteryScore = S/A*100*0.6 + (M*1.5 + H*2.5)/max(S,1)*25 + min(A/10,1)*15,
\* computed as the fraction num/den with
\*   den = 2*A*max(S,1),
\*   num = 120*S*max(S,1) + (75*M + 125*H)*A + 3*min(A,10)*A*max(S,1).
\* The code computes in IEEE doubles. For totals up to 24 the double result
\* rounds as the fraction does except on the inputs <<S, M, H, A>> below,
\* where the fraction is an exact half and the double sum lies just under it.
DoubleBelowHalf ==
  {<<1, 0, 0, 3>>, <<2, 0, 0, 3>>, <<4, 0, 0, 3>>, <<5, 1, 4, 15>>, <<6, 0, 0, 9>>,
   <<10, 2, 0, 15>>, <<12, 0, 0, 9>>, <<19, 0, 0, 24>>, <<23, 1, 4, 20>>,
   <<23, 6, 1, 20>>}

\* Math.round(masteryScore): the fraction num/den rounded half up, except
\* where the double-precision sum falls just below an exact half
RoundedScore(solved, attempted) ==
  LET S == solved["easy"] + solved["medium"] + solved["hard"]
      A == attempted["easy"] + attempted["medium"] + attempted["hard"]
      S1 == Max2(S, 1)
      num == 120 * S * S1 + (75 * solved["medium"] + 125 * solved["hard"]) * A
               + 3 * Min2(A, 10) * A * S1
      den == 2 * A * S1
      halfUp == (2 * num + den) \div (2 * den)
  IN IF <<S, solved["medium"], solved["hard"], A>> \in DoubleBelowHalf
     THEN halfUp - 1 ELSE halfUp

\* variant: the rounded score stored without the cap
MasteryScore_NoClamp(solved, attempted) == RoundedScore(solved, attempted)

MasteryScore(solved, attempted) == Min2(RoundedScore(solved, attempted), 100)

RecommendedDifficulty(level) ==
  IF level < 40 THEN "easy" ELSE IF level < 70 THEN "medium" ELSE "hard"

\* topicMasterySchema.pre("save")
MasteryPreSave(doc, t) ==
  LET S == doc.problemsSolved["easy"] + doc.problemsSolved["medium"] + doc.problemsSolved["hard"]
      A == doc.problemsAttempted["easy"] + doc.problemsAttempted["medium"]
             + doc.problemsAttempted["hard"]
      level == IF A > 0 THEN MasteryScore(doc.problemsSolved, doc.problemsAttempted)
               ELSE doc.masteryLevel
  IN [doc EXCEPT
        !.successRates["overall"] = IF A > 0 THEN Rat(S * 100, A) ELSE @,
        !.masteryLevel = level,
        !.recommendedDifficulty = RecommendedDifficulty(level),
        !.lastUpdated = t]

\* variant: the counters patched by adding to the stored ones
MasteryCounters_Accumulate(doc, tp) ==
  LET of(d) == {x \in BagToSet(tp) : x.difficulty = d}
      n(d) == SumOver(of(d), [x \in of(d) |-> CopiesIn(x, tp)])
      s(d) == LET S == {x \in of(d) : x.status = "solved"}
              IN SumOver(S, [x \in S |-> CopiesIn(x, tp)])
  IN [doc EXCEPT
        !.problemsAttempted = [d \in Tiers |-> @[d] + n(d)],
        !.problemsSolved = [d \in Tiers |-> @[d] + s(d)]]

\* the statistics updateTopicMastery writes into the document from the
\* Progress records it has read
MasteryCounters(doc, tp) ==
  LET of(d) == {x \in BagToSet(tp) : x.difficulty = d}
      n(d) == SumOver(of(d), [x \in of(d) |-> CopiesIn(x, tp)])
      s(d) == LET S == {x \in of(d) : x.status = "solved"}
              IN SumOver(S, [x \in S |-> CopiesIn(x, tp)])
      tot(d) == SumOver(of(d), [x \in of(d) |-> x.totalAttempts * CopiesIn(x, tp)])
  IN [doc EXCEPT
        !.problemsAttempted = [d \in Tiers |-> n(d)],
        !.problemsSolved = [d \in Tiers |-> s(d)],
        !.successRates = [d \in Tiers \cup {"overall"} |->
                            IF d \in Tiers /\ n(d) > 0 THEN Rat(s(d) * 100, n(d)) ELSE @[d]],
        !.averageAttempts = [d \in Tiers |->
                            IF n(d) > 0 THEN Rat(tot(d), n(d)) ELSE @[d]]]

(* ------------------------- problem selector --------------------------- *)
ActiveProblems(cat) == {p \in Problems : cat[p].isActive}

\* Problem.findOne({isActive: true}): first active problem in natural order
FirstActive(cat) ==
  IF ActiveProblems(cat) = {} THEN NoProblem
  ELSE ProblemOrder[CHOOSE i \in Indices(ProblemOrder) :
         /\ cat[ProblemOrder[i]].isActive
         /\ \A j \in Indices(ProblemOrder) : cat[ProblemOrder[j]].isActive => i <= j]

Matching(cat, topic, difficulty) ==
  {p \in ActiveProblems(cat) :
     /\ cat[p].difficulty = difficulty
     /\ (topic # NoTopic => cat[p].topic = topic)}

\* variant: the fallback query without the isActive filter
getRandomProblem_AnyFallback(cat, topic, difficulty) ==
  IF Matching(cat, topic, difficulty) = {}
  THEN {ProblemOrder[1]}
  ELSE Matching(cat, topic, difficulty)

\* the set of problems one call of getRandomProblem can return
getRandomProblem(cat, topic, difficulty) ==
  IF Matching(cat, topic, difficulty) = {}
  THEN {FirstActive(cat)}
  ELSE Matching(cat, topic, difficulty)

(* ----------------------- topic progression policy --------------------- *)
allTopics ==
  <<"arrays", "strings", "stack", "queue", "linked-list", "trees", "graphs",
    "dynamic-programming">>

\* variant: the last record in input order wins among equal levels
findWeakestTopic_LastTie(tms) ==
  LET weak == {i \in Indices(tms) : tms[i].masteryLevel < 70}
  IN IF weak = {} THEN <<>>
     ELSE <<tms[CHOOSE i \in weak :
                \A j \in weak :
                   \/ tms[i].masteryLevel < tms[j].masteryLevel
                   \/ (tms[i].masteryLevel = tms[j].masteryLevel /\ i >= j)]>>

\* topicMasteries.filter(masteryLevel < 70).sort(ascending)[0]; the sort is
\* stable, so the first record in input order wins among equal levels
findWeakestTopic(tms) ==
  LET weak == {i \in Indices(tms) : tms[i].masteryLevel < 70}
  IN IF weak = {} THEN <<>>
     ELSE <<tms[CHOOSE i \in weak :
                \A j \in weak :
                   \/ tms[i].masteryLevel < tms[j].masteryLevel
                   \/ (tms[i].masteryLevel = tms[j].masteryLevel /\ i <= j)]>>

\* variant: the thresholds of recommendedDifficulty used for the topic
selectDifficultyForTopic_Forty(tm) ==
  IF tm.masteryLevel < 40 THEN "easy"
  ELSE IF tm.masteryLevel < 70 THEN "medium" ELSE "hard"

selectDifficultyForTopic(tm) ==
  IF tm.masteryLevel < 30 THEN "easy"
  ELSE IF tm.masteryLevel < 60 THEN "medium" ELSE "hard"

\* variant: the first topic not mastered, attempted or not
getNextTopic_IgnoreProgress(prog, u, tms) ==
  LET masteredTopics == {tms[i].topic : i \in {j \in Indices(tms) : tms[j].masteryLevel >= 50}}
      open == {i \in Indices(allTopics) : allTopics[i] \notin masteredTopics}
  IN IF open = {} THEN NoTopic
     ELSE allTopics[CHOOSE i \in open : \A j \in open : i <= j]

\* the loop over allTopics: the first topic without a record of
\* masteryLevel >= 50 and without a Progress record of the user
getNextTopic(prog, u, tms) ==
  LET masteredTopics == {tms[i].topic : i \in {j \in Indices(tms) : tms[j].masteryLevel >= 50}}
      open == {i \in Indices(allTopics) :
                 /\ allTopics[i] \notin masteredTopics
                 /\ BagToSet(TopicProgress(prog, u, allTopics[i])) = {}}
  IN IF open = {} THEN NoTopic
     ELSE allTopics[CHOOSE i \in open : \A j \in open : i <= j]

\* variant: the weakest topic looked for before the new-user rule
PolicyRequest_WeakestFirst(usrs, ms, prog, u) ==
  LET topicMasteries == UserMasteries(ms, u)
      recentProgress == UserProgress(prog, u)
      weakestTopic == findWeakestTopic(topicMasteries)
      nextTopic == getNextTopic(prog, u, topicMasteries)
  IN IF weakestTopic # <<>>
       THEN [topic |-> weakestTopic[1].topic,
             difficulty |-> selectDifficultyForTopic(weakestTopic[1])]
     ELSE IF BagToSet(recentProgress) = {} THEN [topic |-> "arrays", difficulty |-> "easy"]
     ELSE IF nextTopic # NoTopic THEN [topic |-> nextTopic, difficulty |-> "easy"]
     ELSE [topic |-> NoTopic,
           difficulty |-> IF usrs[u].skillLevel = "beginner" THEN "easy" ELSE "medium"]

\* variant: the new-topic rule tried before the weakest-topic rule
PolicyRequest_NewTopicFirst(usrs, ms, prog, u) ==
  LET topicMasteries == UserMasteries(ms, u)
      recentProgress == UserProgress(prog, u)
      weakestTopic == findWeakestTopic(topicMasteries)
      nextTopic == getNextTopic(prog, u, topicMasteries)
  IN IF BagToSet(recentProgress) = {} THEN [topic |-> "arrays", difficulty |-> "easy"]
     ELSE IF nextTopic # NoTopic THEN [topic |-> nextTopic, difficulty |-> "easy"]
     ELSE IF weakestTopic # <<>>
       THEN [topic |-> weakestTopic[1].topic,
             difficulty |-> selectDifficultyForTopic(weakestTopic[1])]
     ELSE [topic |-> NoTopic,
           difficulty |-> IF usrs[u].skillLevel = "beginner" THEN "easy" ELSE "medium"]

\* the (topic, difficulty) generateDailyRecommendation asks the selector for
PolicyRequest(usrs, ms, prog, u) ==
  LET topicMasteries == UserMasteries(ms, u)
      recentProgress == UserProgress(prog, u)
      weakestTopic == findWeakestTopic(topicMasteries)
      nextTopic == getNextTopic(prog, u, topicMasteries)
  IN IF BagToSet(recentProgress) = {} THEN [topic |-> "arrays", difficulty |-> "easy"]
     ELSE IF weakestTopic # <<>>
       THEN [topic |-> weakestTopic[1].topic,
             difficulty |-> selectDifficultyForTopic(weakestTopic[1])]
     ELSE IF nextTopic # NoTopic THEN [topic |-> nextTopic, difficulty |-> "easy"]
     ELSE [topic |-> NoTopic,
           difficulty |-> IF usrs[u].skillLevel = "beginner" THEN "easy" ELSE "medium"]

generateDailyRecommendation(u) ==
  LET q == PolicyRequest(users, mastery, progress, u)
  IN getRandomProblem(problems, q.topic, q.difficulty)

(* ----------------------------- requests ------------------------------- *)
\* paths of a Problem document that an answer can carry
ProblemPaths == {"title", "description", "testCases", "solution", "hints"}

NoRequest == [topic |-> NoTopic, difficulty |-> "none"]

\* the last answer a handler gave to its caller
NoResp ==
  [kind |-> "none", userId |-> "none", hit |-> FALSE, status |-> 0,
   problem |-> NoProblem, cause |-> "none", currentStreak |-> 0, paths |-> {}]

IdleReq ==
  [pc |-> "idle", userId |-> "none", today |-> 0, problemId |-> NoProblem,
   request |-> NoRequest, longestStreak |-> 0, topic |-> NoTopic,
   difficulty |-> "none", language |-> "none", passed |-> FALSE,
   loaded |-> <<>>, doc |-> <<>>, failed |-> "none"]

Free(r) == req[r].pc = "idle"

\* a new handler takes the lowest free slot (the slots are interchangeable)
CanStart(r) == Free(r) /\ \A q \in Reqs : q < r => ~Free(q)

\* the answer of the daily-recommendation handler in slot rq: problem is
\* the populated selectedProblem document as it is stored
DailyAnswer(rq, hit, status, cause) ==
  [NoResp EXCEPT !.kind = "daily", !.userId = rq.userId, !.hit = hit, !.status = status,
                 !.problem = IF status = 200 THEN rq.problemId ELSE NoProblem,
                 !.cause = cause,
                 !.paths = IF status = 200 THEN ProblemPaths ELSE {}]

\* the data cleanup cron job: the users it has still to update, each with
\* the longestStreak its User.find read
IdleCleanup == [pc |-> "idle", queue |-> <<>>]

IdleJob ==
  [pc |-> "idle", today |-> 0, queue |-> <<>>, problemId |-> NoProblem,
   successCount |-> 0, errorCount |-> 0]

Init ==
  /\ now = 0
  /\ problems = SeedProblems
  /\ users = SeedUsers
  /\ recs = EmptyBag
  /\ progress = EmptyBag
  /\ mastery = <<>>
  /\ req = [r \in Reqs |-> IdleReq]
  /\ job = IdleJob
  /\ out = NoResp
  /\ submits = 0
  /\ recomputed = {}
  /\ passedOnce = {}
  /\ cleanup = IdleCleanup

(* --------------------- GET /daily-recommendation ---------------------- *)
\* variant: the handler generates whether or not it found a record
DailyFind_Regenerate(r, u) ==
  /\ CanStart(r)
  /\ req' = [req EXCEPT ![r] = [IdleReq EXCEPT !.userId = u, !.today = now,
                                                !.pc = "d_generate"]]
  /\ UNCHANGED <<now, problems, users, recs, progress, mastery, job, out, submits,
                 recomputed, passedOnce, cleanup>>

\* today = midnight of now; findOne({userId, date: today}); an existing
\* record is answered as it is (populate, the read of the user's Progress
\* and success(res, ...) write nothing)
DailyFind(r, u) ==
  /\ CanStart(r)
  /\ LET found == FindRec(u, now)
         rq == [IdleReq EXCEPT !.userId = u, !.today = now]
     IN IF found # <<>>
        THEN /\ req' = req
             /\ out' = DailyAnswer([rq EXCEPT !.problemId = found[1].selectedProblem],
                                   TRUE, 200, "ok")
        ELSE /\ req' = [req EXCEPT ![r] = [rq EXCEPT !.pc = "d_generate"]]
             /\ out' = out
  /\ UNCHANGED <<now, problems, users, recs, progress, mastery, job, submits, recomputed, passedOnce, cleanup>>

\* if (!recommendation): generateDailyRecommendation(userId); a null result
\* makes recommendedProblem._id throw, which the handler answers with 500
DailyGenerate(r) ==
  /\ req[r].pc = "d_generate"
  /\ \E p \in generateDailyRecommendation(req[r].userId) :
       LET rq == [req[r] EXCEPT !.problemId = p,
                     !.request = PolicyRequest(users, mastery, progress, req[r].userId)]
       IN IF p = NoProblem
          THEN /\ req' = [req EXCEPT ![r] = IdleReq]
               /\ out' = DailyAnswer(rq, FALSE, 500, "no_problem")
          ELSE /\ req' = [req EXCEPT ![r] = [rq EXCEPT !.pc = "d_save"]]
               /\ out' = out
  /\ UNCHANGED <<now, problems, users, recs, progress, mastery, job, submits, recomputed, passedOnce, cleanup>>

\* the lookups generateDailyRecommendation makes before it asks the selector
Lookups == {"User.findById", "TopicMastery.find", "UserProgress.find", "UserProgress.findOne"}

\* the first three are always made; getNextTopic's findOne is made when
\* the first two rules do not apply and a topic of the list has no record
\* of masteryLevel >= 50
LookupMade(u, lookup) ==
  lookup = "UserProgress.findOne"
    => /\ BagToSet(UserProgress(progress, u)) # {}
       /\ findWeakestTopic(UserMasteries(mastery, u)) = <<>>
       /\ getNextTopic_IgnoreProgress(progress, u, UserMasteries(mastery, u)) # NoTopic

\* variant: the catch asks for an easy problem of any topic
DegradedRequest_AnyEasy == [topic |-> NoTopic, difficulty |-> "easy"]

\* catch (error) { return await this.getRandomProblem("arrays", "easy") }
DegradedRequest == [topic |-> "arrays", difficulty |-> "easy"]

\* generateDailyRecommendation in which the given lookup rejects
DailyGenerateFailing(r, lookup) ==
  /\ req[r].pc = "d_generate"
  /\ LookupMade(req[r].userId, lookup)
  /\ \E p \in getRandomProblem(problems, DegradedRequest.topic, DegradedRequest.difficulty) :
       LET rq == [req[r] EXCEPT !.problemId = p, !.request = DegradedRequest,
                                !.failed = lookup]
       IN IF p = NoProblem
          THEN /\ req' = [req EXCEPT ![r] = IdleReq]
               /\ out' = DailyAnswer(rq, FALSE, 500, "no_problem")
          ELSE /\ req' = [req EXCEPT ![r] = [rq EXCEPT !.pc = "d_save"]]
               /\ out' = out
  /\ UNCHANGED <<now, problems, users, recs, progress, mastery, job, submits, recomputed, passedOnce, cleanup>>

\* recommendation.save(): an insert under the unique index, then the answer;
\* the duplicate-key error is caught by the handler's catch and answered
\* with 500
DailySave(r) ==
  /\ req[r].pc = "d_save"
  /\ IF RecIndexAllows(req[r].userId, req[r].today)
     THEN /\ recs' = recs (+) SetToBag({NewRecommendation(req[r].userId, req[r].today,
                                                         req[r].problemId)})
          /\ out' = DailyAnswer(req[r], FALSE, 200, "ok")
     ELSE /\ recs' = recs
          /\ out' = DailyAnswer(req[r], FALSE, 500, "duplicate_key")
  /\ req' = [req EXCEPT ![r] = IdleReq]
  /\ UNCHANGED <<now, problems, users, progress, mastery, job, submits, recomputed, passedOnce, cleanup>>

(* ------------------ daily recommendation cron job --------------------- *)
\* next iteration of for (const user of activeUsers); after the last one the
\* job stops with the counts it logs
JobAdvance(j) ==
  IF Len(j.queue) <= 1
  THEN [IdleJob EXCEPT !.successCount = j.successCount, !.errorCount = j.errorCount]
  ELSE [j EXCEPT !.pc = "j_find", !.queue = Tail(@), !.problemId = NoProblem]

JobStart ==
  /\ job.pc = "idle"
  /\ job' = [IdleJob EXCEPT !.today = now, !.queue = UserOrder, !.pc = "j_find"]
  /\ UNCHANGED <<now, problems, users, recs, progress, mastery, req, out, submits, recomputed, passedOnce, cleanup>>

\* existingRecommendation ? continue : generate
JobFind ==
  /\ job.pc = "j_find"
  /\ job' = IF FindRec(Head(job.queue), job.today) # <<>>
            THEN JobAdvance(job)
            ELSE [job EXCEPT !.pc = "j_generate"]
  /\ UNCHANGED <<now, problems, users, recs, progress, mastery, req, out, submits, recomputed, passedOnce, cleanup>>

\* if (recommendedProblem) {...}: a null result is skipped without a count
JobGenerate ==
  /\ job.pc = "j_generate"
  /\ \E p \in generateDailyRecommendation(Head(job.queue)) :
       job' = IF p = NoProblem THEN JobAdvance(job)
              ELSE [job EXCEPT !.pc = "j_save", !.problemId = p]
  /\ UNCHANGED <<now, problems, users, recs, progress, mastery, req, out, submits, recomputed, passedOnce, cleanup>>

\* recommendation.save() inside the per-user try/catch
JobSave ==
  /\ job.pc = "j_save"
  /\ LET u == Head(job.queue)
     IN IF RecIndexAllows(u, job.today)
        THEN /\ recs' = recs (+) SetToBag({NewRecommendation(u, job.today, job.problemId)})
             /\ job' = JobAdvance([job EXCEPT !.successCount = @ + 1])
        ELSE /\ recs' = recs
             /\ job' = JobAdvance([job EXCEPT !.errorCount = @ + 1])
  /\ UNCHANGED <<now, problems, users, progress, mastery, req, out, submits, recomputed, passedOnce, cleanup>>

(* --------------------------- GET /problems/:id ------------------------ *)
\* the whole handler: Problem.findById, UserProgress.findOne, and the
\* answer without the solution unless the progress is solved
ProblemDetail(u, p) ==
  /\ LET progressDoc == FindProgress(u, p)
         problemData == IF progressDoc = <<>> \/ progressDoc[1].status # "solved"
                        THEN ProblemPaths \ {"solution"}
                        ELSE ProblemPaths
     IN out' = IF ~problems[p].isActive
               THEN [NoResp EXCEPT !.kind = "detail", !.userId = u, !.status = 404,
                                   !.cause = "not_found"]
               ELSE [NoResp EXCEPT !.kind = "detail", !.userId = u, !.status = 200,
                                   !.problem = p, !.paths = problemData]
  /\ UNCHANGED <<now, problems, users, recs, progress, mastery, req, job, submits, recomputed, passedOnce, cleanup>>

(* ---------------------- POST /problems/:id/submit --------------------- *)
Bodies ==
  {[code |-> "x", timeTaken |-> 5, language |-> "javascript"],
   [code |-> "x", timeTaken |-> 5, language |-> "ruby"],
   [code |-> "", timeTaken |-> 5, language |-> "javascript"],
   [code |-> "x", timeTaken |-> 0, language |-> "javascript"]}

\* new UserProgress({userId, problemId, difficulty, topic, attempts: []})
NewProgress(u, p, difficulty, topic) ==
  [userId |-> u, problemId |-> p, attempts |-> <<>>, status |-> "not-attempted",
   difficulty |-> difficulty, topic |-> topic, firstAttemptDate |-> NoDate,
   solvedDate |-> NoDate, totalAttempts |-> 0]

\* variant: the hook without the attempt count
ProgressPreSave_NoCount(doc, t) ==
  [doc EXCEPT
     !.solvedDate = IF doc.status = "solved" /\ @ = NoDate THEN t ELSE @,
     !.firstAttemptDate =
        IF Len(doc.attempts) > 0 /\ @ = NoDate THEN doc.attempts[1].timestamp ELSE @]

\* userProgressSchema.pre("save")
ProgressPreSave(doc, t) ==
  [doc EXCEPT
     !.totalAttempts = Len(doc.attempts),
     !.solvedDate = IF doc.status = "solved" /\ @ = NoDate THEN t ELSE @,
     !.firstAttemptDate =
        IF Len(doc.attempts) > 0 /\ @ = NoDate THEN doc.attempts[1].timestamp ELSE @]

\* variant: every pass stamps solvedDate
StatusUpdate_Restamp(doc, passed, t) ==
  IF passed
  THEN [doc EXCEPT !.status = "solved", !.solvedDate = t]
  ELSE [doc EXCEPT !.status = "attempted"]

\* status update of the handler: solved on a pass, attempted otherwise
StatusUpdate(doc, passed, t) ==
  IF passed
  THEN [doc EXCEPT !.status = "solved",
                   !.solvedDate = IF @ = NoDate THEN t ELSE @]
  ELSE [doc EXCEPT !.status = "attempted"]

\* the handler increments profile.totalSolved when it sets solvedDate
NeedsIncrement(doc, passed) == passed /\ doc.solvedDate = NoDate

\* progress.save() of the handler's document: an insert of a new document,
\* a replacement of the loaded one otherwise
SaveProgress(prog, found, doc) ==
  IF found = <<>> THEN prog (+) SetToBag({doc})
  ELSE (prog (-) SetToBag({found[1]})) (+) SetToBag({doc})

\* updateTopicMastery(userId, topic) run to completion on the stores
updateTopicMastery(ms, prog, u, t, time) ==
  LET idx == {i \in Indices(ms) : ms[i].userId = u /\ ms[i].topic = t}
      first == CHOOSE i \in idx : \A j \in idx : i <= j
      topicMastery == IF idx = {} THEN NewMastery(u, t) ELSE ms[first]
      topicProgress == TopicProgress(prog, u, t)
      doc == MasteryPreSave(MasteryCounters(topicMastery, topicProgress), time)
  IN IF BagToSet(topicProgress) = {} THEN ms
     ELSE IF idx = {} THEN Append(ms, doc)
     ELSE [ms EXCEPT ![first] = doc]

SubmitAnswer(u, p, status, cause) ==
  [NoResp EXCEPT !.kind = "submit", !.userId = u, !.status = status,
                 !.problem = p, !.cause = cause]

\* the whole handler, run without another handler in between: body check,
\* Problem.findById, the mock judge's outcome k + 1 of testCases, find or
\* create the Progress record, push the attempt, update status and the
\* user's totalSolved, save, recompute the topic's mastery, answer
recordAttempt(u, p, body, k) ==
  /\ submits < MaxSubmits
  /\ submits' = submits + 1
  /\ k \in 0..Max2(problems[p].testCases - 1, 0)
  /\ IF body.code = "" \/ body.timeTaken = 0
     THEN /\ out' = SubmitAnswer(u, p, 400, "required")
          /\ UNCHANGED <<users, progress, mastery, recomputed, passedOnce>>
     ELSE IF ~problems[p].isActive
     THEN /\ out' = SubmitAnswer(u, p, 404, "not_found")
          /\ UNCHANGED <<users, progress, mastery, recomputed, passedOnce>>
     ELSE LET passed == (k + 1 = problems[p].testCases)
              found == FindProgress(u, p)
              base == IF found = <<>>
                      THEN NewProgress(u, p, problems[p].difficulty, problems[p].topic)
                      ELSE found[1]
              attempt == [attemptNumber |-> Len(base.attempts) + 1,
                          result |-> IF passed THEN "passed" ELSE "failed",
                          timestamp |-> now]
              pushed == [base EXCEPT !.attempts = Append(@, attempt)]
              doc == ProgressPreSave(StatusUpdate(pushed, passed, now), now)
              saved == SaveProgress(progress, found, doc)
          IN /\ passedOnce' = IF passed THEN passedOnce \cup {<<u, p>>} ELSE passedOnce
             /\ users' = IF NeedsIncrement(base, passed)
                         THEN [users EXCEPT ![u].totalSolved = @ + 1] ELSE users
             /\ IF body.language \notin LanguageEnum
                THEN /\ out' = SubmitAnswer(u, p, 500, "validation")
                     /\ UNCHANGED <<progress, mastery, recomputed>>
                ELSE /\ progress' = saved
                     /\ mastery' = updateTopicMastery(mastery, saved, u, problems[p].topic, now)
                     /\ recomputed' = {x \in recomputed : x[1] # u}
                                        \cup {<<u, problems[p].topic>>}
                     /\ out' = SubmitAnswer(u, p, 200, IF passed THEN "passed" ELSE "failed")
  /\ UNCHANGED <<now, problems, recs, req, job, cleanup>>

\* the unique index {userId: 1, problemId: 1}
ProgIndexAllows(u, p) == ProgDocs(u, p) = {}

\* document.save() of a loaded document: the pushed attempts go out as a
\* $push, the modified scalar paths as a $set; other paths keep what is stored
ProgressDelta(stored, loaded, doc) ==
  [stored EXCEPT
     !.attempts = @ \o SubSeq(doc.attempts, Len(loaded.attempts) + 1, Len(doc.attempts)),
     !.status = IF doc.status # loaded.status THEN doc.status ELSE @,
     !.solvedDate = IF doc.solvedDate # loaded.solvedDate THEN doc.solvedDate ELSE @,
     !.firstAttemptDate =
        IF doc.firstAttemptDate # loaded.firstAttemptDate THEN doc.firstAttemptDate ELSE @,
     !.totalAttempts =
        IF doc.totalAttempts # loaded.totalAttempts THEN doc.totalAttempts ELSE @]

\* the handler split at its store round trips.  Body check, Problem.findById
\* and the mock judge's outcome k + 1 of testCases
SubmitStart(r, u, p, body, k) ==
  /\ CanStart(r)
  /\ submits < MaxSubmits
  /\ submits' = submits + 1
  /\ k \in 0..Max2(problems[p].testCases - 1, 0)
  /\ IF body.code = "" \/ body.timeTaken = 0
     THEN /\ out' = SubmitAnswer(u, p, 400, "required")
          /\ req' = req
     ELSE IF ~problems[p].isActive
     THEN /\ out' = SubmitAnswer(u, p, 404, "not_found")
          /\ req' = req
     ELSE /\ out' = out
          /\ req' = [req EXCEPT ![r] =
               [IdleReq EXCEPT !.pc = "s_find", !.userId = u, !.problemId = p,
                               !.topic = problems[p].topic,
                               !.difficulty = problems[p].difficulty,
                               !.language = body.language,
                               !.passed = (k + 1 = problems[p].testCases)]]
  /\ UNCHANGED <<now, problems, users, recs, progress, mastery, job, recomputed, passedOnce, cleanup>>

\* UserProgress.findOne, or a new document; push the attempt; update status
SubmitFind(r) ==
  /\ req[r].pc = "s_find"
  /\ LET rq == req[r]
         found == FindProgress(rq.userId, rq.problemId)
         base == IF found = <<>>
                 THEN NewProgress(rq.userId, rq.problemId, rq.difficulty, rq.topic)
                 ELSE found[1]
         attempt == [attemptNumber |-> Len(base.attempts) + 1,
                     result |-> IF rq.passed THEN "passed" ELSE "failed",
                     timestamp |-> now]
         pushed == [base EXCEPT !.attempts = Append(@, attempt)]
     IN /\ req' = [req EXCEPT ![r].loaded = found,
                              ![r].doc = <<StatusUpdate(pushed, rq.passed, now)>>,
                              ![r].pc = IF NeedsIncrement(base, rq.passed)
                                        THEN "s_inc" ELSE "s_save"]
        /\ passedOnce' = IF rq.passed
                         THEN passedOnce \cup {<<rq.userId, rq.problemId>>}
                         ELSE passedOnce
  /\ UNCHANGED <<now, problems, users, recs, progress, mastery, job, out, submits, recomputed, cleanup>>

\* req.user.updateOne({$inc: {"profile.totalSolved": 1}})
SubmitInc(r) ==
  /\ req[r].pc = "s_inc"
  /\ users' = [users EXCEPT ![req[r].userId].totalSolved = @ + 1]
  /\ req' = [req EXCEPT ![r].pc = "s_save"]
  /\ UNCHANGED <<now, problems, recs, progress, mastery, job, out, submits, recomputed, passedOnce, cleanup>>

\* progress.save(): validation (the language enum), the pre-save hook, then
\* an insert under the unique index or an update of the loaded document; an
\* error is answered with 500 by the handler's catch
SubmitSave(r) ==
  /\ req[r].pc = "s_save"
  /\ LET rq == req[r]
         doc == ProgressPreSave(rq.doc[1], now)
     IN IF rq.language \notin LanguageEnum
        THEN /\ out' = SubmitAnswer(rq.userId, rq.problemId, 500, "validation")
             /\ req' = [req EXCEPT ![r] = IdleReq]
             /\ UNCHANGED <<progress, recomputed>>
        ELSE IF rq.loaded = <<>> /\ ~ProgIndexAllows(rq.userId, rq.problemId)
        THEN /\ out' = SubmitAnswer(rq.userId, rq.problemId, 500, "duplicate_key")
             /\ req' = [req EXCEPT ![r] = IdleReq]
             /\ UNCHANGED <<progress, recomputed>>
        ELSE /\ progress' =
                  IF rq.loaded = <<>> THEN progress (+) SetToBag({doc})
                  ELSE LET stored == FindProgress(rq.userId, rq.problemId)[1]
                       IN (progress (-) SetToBag({stored}))
                            (+) SetToBag({ProgressDelta(stored, rq.loaded[1], doc)})
             /\ recomputed' = {x \in recomputed : x[1] # rq.userId}
             /\ req' = [req EXCEPT ![r].pc = "s_mastery", ![r].loaded = <<>>,
                                   ![r].doc = <<>>]
             /\ out' = out
  /\ UNCHANGED <<now, problems, users, recs, mastery, job, submits, passedOnce, cleanup>>

\* updateTopicMastery(userId, problem.topic, passed), then the answer
SubmitMastery(r) ==
  /\ req[r].pc = "s_mastery"
  /\ LET rq == req[r]
     IN /\ mastery' = updateTopicMastery(mastery, progress, rq.userId, rq.topic, now)
        /\ recomputed' = recomputed \cup {<<rq.userId, rq.topic>>}
        /\ out' = SubmitAnswer(rq.userId, rq.problemId, 200,
                               IF rq.passed THEN "passed" ELSE "failed")
  /\ req' = [req EXCEPT ![r] = IdleReq]
  /\ UNCHANGED <<now, problems, users, recs, progress, job, submits, passedOnce, cleanup>>

\* topic mastery cron job: one updateTopicMastery(userId, topic) call for a
\* topic the user has a Progress record in
MasteryJob(u, t) ==
  /\ BagToSet(TopicProgress(progress, u, t)) # {}
  /\ mastery' = updateTopicMastery(mastery, progress, u, t, now)
  /\ recomputed' = recomputed \cup {<<u, t>>}
  /\ UNCHANGED <<now, problems, users, recs, progress, req, job, out, submits, passedOnce, cleanup>>

(* --------------------------- environment ------------------------------ *)
Tick ==
  /\ now < MaxTime
  /\ now' = now + 1
  /\ UNCHANGED <<problems, users, recs, progress, mastery, req, job, out, submits, recomputed, passedOnce, cleanup>>

\* DELETE /api/admin/problems/:id (soft delete)
AdminDelete(p) ==
  /\ problems[p].isActive
  /\ Cardinality(Problems \ ActiveProblems(problems)) < MaxDeletes
  /\ problems' = [problems EXCEPT ![p].isActive = FALSE]
  /\ UNCHANGED <<now, users, recs, progress, mastery, req, job, out, submits, recomputed, passedOnce, cleanup>>

\* PUT /api/admin/problems/:id: findByIdAndUpdate(id, req.body); topic and
\* difficulty are required paths of the body
AdminEdit(p, topic, difficulty) ==
  /\ <<topic, difficulty>> # <<problems[p].topic, problems[p].difficulty>>
  /\ problems' = [problems EXCEPT ![p].topic = topic, ![p].difficulty = difficulty]
  /\ UNCHANGED <<now, users, recs, progress, mastery, req, job, out, submits, recomputed, passedOnce, cleanup>>

StoredTopics == {x.topic : x \in BagToSet(progress)}

(* --------------------------- specifications --------------------------- *)
\* the caller receives an answer before the server does anything else
Ready == out = NoResp

Deliver ==
  /\ out # NoResp
  /\ out' = NoResp
  /\ UNCHANGED <<now, problems, users, recs, progress, mastery, req, job, submits, recomputed, passedOnce, cleanup>>

\* daily-recommendation handlers overlap with each other, with submissions,
\* mastery recomputations, soft deletes and the change of day
Next ==
  \/ Deliver
  \/ Ready /\ \E r \in Reqs, u \in Users : DailyFind(r, u)
  \/ Ready /\ \E r \in Reqs : DailyGenerate(r)
  \/ Ready /\ \E r \in Reqs : DailySave(r)
  \/ Ready /\ submits < MaxEnvSubmits
           /\ \E u \in Users, p \in Problems, b \in Bodies, k \in 0..1 : recordAttempt(u, p, b, k)
  \/ Ready /\ \E u \in Users, t \in StoredTopics : MasteryJob(u, t)
  \/ Ready /\ Tick
  \/ Ready /\ \E p \in Problems : AdminDelete(p)

Spec == Init /\ [][Next]_vars

\* daily-recommendation handlers overlap with the cron job
RecNext ==
  \/ Deliver
  \/ Ready /\ \E r \in Reqs, u \in Users : DailyFind(r, u)
  \/ Ready /\ \E r \in Reqs : DailyGenerate(r)
  \/ Ready /\ \E r \in Reqs : DailySave(r)
  \/ Ready /\ JobStart
  \/ Ready /\ JobFind
  \/ Ready /\ JobGenerate
  \/ Ready /\ JobSave
  \/ Ready /\ Tick

RecSpec == Init /\ [][RecNext]_vars

\* submissions and mastery recomputations, one at a time
AttemptNext ==
  \/ Deliver
  \/ Ready /\ \E u \in Users, p \in Problems, b \in Bodies, k \in 0..1 : recordAttempt(u, p, b, k)
  \/ Ready /\ \E u \in Users, t \in StoredTopics : MasteryJob(u, t)
  \/ Ready /\ Tick
  \/ Ready /\ \E p \in Problems : AdminDelete(p)

AttemptSpec == Init /\ [][AttemptNext]_vars

\* submission handlers overlap with each other
SubmitNext ==
  \/ Deliver
  \/ Ready /\ \E r \in Reqs, u \in Users, p \in Problems, b \in Bodies, k \in 0..1 :
                SubmitStart(r, u, p, b, k)
  \/ Ready /\ \E r \in Reqs : SubmitFind(r)
  \/ Ready /\ \E r \in Reqs : SubmitInc(r)
  \/ Ready /\ \E r \in Reqs : SubmitSave(r)
  \/ Ready /\ \E r \in Reqs : SubmitMastery(r)
  \/ Ready /\ Tick
  \/ Ready /\ \E p \in Problems : AdminDelete(p)

SubmitSpec == Init /\ [][SubmitNext]_vars

(* ------------- updateTopicMastery, one database call a step ----------- *)
MasteryIdx(u, t) ==
  {i \in Indices(mastery) : mastery[i].userId = u /\ mastery[i].topic = t}

FirstMasteryIdx(u, t) == CHOOSE i \in MasteryIdx(u, t) : \A j \in MasteryIdx(u, t) : i <= j

\* the unique index {userId: 1, topic: 1}
MasteryIndexAllows(u, t) == MasteryIdx(u, t) = {}

\* document.save() of a loaded document sends only the paths whose value
\* differs from the loaded one; every other path keeps what is stored
MasteryDelta(stored, loaded, doc) ==
  [stored EXCEPT
     !.masteryLevel = IF doc.masteryLevel # loaded.masteryLevel THEN doc.masteryLevel ELSE @,
     !.problemsAttempted = [d \in Tiers |->
        IF doc.problemsAttempted[d] # loaded.problemsAttempted[d]
        THEN doc.problemsAttempted[d] ELSE @[d]],
     !.problemsSolved = [d \in Tiers |->
        IF doc.problemsSolved[d] # loaded.problemsSolved[d]
        THEN doc.problemsSolved[d] ELSE @[d]],
     !.successRates = [d \in Tiers \cup {"overall"} |->
        IF doc.successRates[d] # loaded.successRates[d] THEN doc.successRates[d] ELSE @[d]],
     !.averageAttempts = [d \in Tiers |->
        IF doc.averageAttempts[d] # loaded.averageAttempts[d]
        THEN doc.averageAttempts[d] ELSE @[d]],
     !.recommendedDifficulty =
        IF doc.recommendedDifficulty # loaded.recommendedDifficulty
        THEN doc.recommendedDifficulty ELSE @,
     !.lastUpdated = IF doc.lastUpdated # loaded.lastUpdated THEN doc.lastUpdated ELSE @]

\* the submit handler's answer after updateTopicMastery has returned
MasteryReturn(r) ==
  /\ out' = SubmitAnswer(req[r].userId, req[r].problemId, 200,
                         IF req[r].passed THEN "passed" ELSE "failed")
  /\ req' = [req EXCEPT ![r] = IdleReq]

\* TopicMastery.findOne({userId, topic}), or a new document
MasteryFind(r) ==
  /\ req[r].pc = "s_mastery"
  /\ LET rq == req[r]
         found == IF MasteryIdx(rq.userId, rq.topic) = {} THEN <<>>
                  ELSE <<mastery[FirstMasteryIdx(rq.userId, rq.topic)]>>
     IN req' = [req EXCEPT ![r].pc = "m_read", ![r].loaded = found,
                           ![r].doc = IF found = <<>>
                                      THEN <<NewMastery(rq.userId, rq.topic)>> ELSE found]
  /\ UNCHANGED <<now, problems, users, recs, progress, mastery, job, out, submits,
                 recomputed, passedOnce, cleanup>>

\* UserProgress.find({userId, topic}) and the counters computed from it;
\* nothing is saved when it is empty
MasteryRead(r) ==
  /\ req[r].pc = "m_read"
  /\ LET rq == req[r]
         topicProgress == TopicProgress(progress, rq.userId, rq.topic)
     IN IF BagToSet(topicProgress) = {}
        THEN /\ MasteryReturn(r)
             /\ recomputed' = recomputed \cup {<<rq.userId, rq.topic>>}
        ELSE /\ req' = [req EXCEPT ![r].pc = "m_save",
                                   ![r].doc = <<MasteryCounters(rq.doc[1], topicProgress)>>]
             /\ UNCHANGED <<out, recomputed>>
  /\ UNCHANGED <<now, problems, users, recs, progress, mastery, job, submits,
                 passedOnce, cleanup>>

\* topicMastery.save(): the pre-save hook, then an insert under the unique
\* index or an update of the loaded document; an error is only logged
MasterySave(r) ==
  /\ req[r].pc = "m_save"
  /\ LET rq == req[r]
         doc == MasteryPreSave(rq.doc[1], now)
     IN mastery' =
          IF rq.loaded = <<>>
          THEN IF MasteryIndexAllows(rq.userId, rq.topic)
               THEN Append(mastery, doc) ELSE mastery
          ELSE [mastery EXCEPT ![FirstMasteryIdx(rq.userId, rq.topic)] =
                  MasteryDelta(@, rq.loaded[1], doc)]
  /\ MasteryReturn(r)
  /\ recomputed' = recomputed \cup {<<req[r].userId, req[r].topic>>}
  /\ UNCHANGED <<now, problems, users, recs, progress, job, submits, passedOnce, cleanup>>

\* submission handlers and their mastery recomputations overlap with each
\* other and with the cron job's recomputation calls
RaceNext ==
  \/ Deliver
  \/ Ready /\ \E r \in Reqs, u \in Users, p \in Problems, b \in Bodies, k \in 0..1 :
                SubmitStart(r, u, p, b, k)
  \/ Ready /\ \E r \in Reqs : SubmitFind(r)
  \/ Ready /\ \E r \in Reqs : SubmitInc(r)
  \/ Ready /\ \E r \in Reqs : SubmitSave(r)
  \/ Ready /\ \E r \in Reqs : MasteryFind(r)
  \/ Ready /\ \E r \in Reqs : MasteryRead(r)
  \/ Ready /\ \E r \in Reqs : MasterySave(r)
  \/ Ready /\ \E u \in Users, t \in StoredTopics : MasteryJob(u, t)

RaceSpec == Init /\ [][RaceNext]_vars

\* problem-detail requests, daily-recommendation requests, submissions and
\* soft deletes, one at a time
DetailNext ==
  \/ Deliver
  \/ Ready /\ (\A q \in Reqs : Free(q)) /\ \E r \in Reqs, u \in Users : DailyFind(r, u)
  \/ Ready /\ \E r \in Reqs : DailyGenerate(r)
  \/ Ready /\ \E r \in Reqs : DailySave(r)
  \/ Ready /\ (\A q \in Reqs : Free(q))
           /\ \E u \in Users, p \in Problems, b \in Bodies, k \in 0..1 : recordAttempt(u, p, b, k)
  \/ Ready /\ (\A q \in Reqs : Free(q)) /\ \E p \in Problems : AdminDelete(p)
  \/ Ready /\ (\A q \in Reqs : Free(q)) /\ \E u \in Users, p \in Problems : ProblemDetail(u, p)

DetailSpec == Init /\ [][DetailNext]_vars

\* submissions, one at a time, with problem edits between them
EditNext ==
  \/ Deliver
  \/ Ready /\ \E u \in Users, p \in Problems, b \in Bodies, k \in 0..1 : recordAttempt(u, p, b, k)
  \/ Ready /\ \E p \in Problems, t \in SelectorTopics, d \in Tiers : AdminEdit(p, t, d)

EditSpec == Init /\ [][EditNext]_vars

(* ------------------- the mastery hook on any counters ----------------- *)
MaxCount == 3

\* masteryLevel values an earlier save can have left in the document
PriorLevels == {0, 55, 100}

\* a TopicMastery document loaded by updateTopicMastery with its counters
\* written and not yet saved; solved may exceed attempted
MasteryInputs ==
  {[NewMastery("u1", "arrays") EXCEPT !.problemsAttempted = a, !.problemsSolved = s,
                                      !.masteryLevel = l] :
     a \in [Tiers -> 0..MaxCount], s \in [Tiers -> 0..MaxCount], l \in PriorLevels}

MasteryInit ==
  /\ now = 0
  /\ problems = SeedProblems
  /\ users = SeedUsers
  /\ recs = EmptyBag
  /\ progress = EmptyBag
  /\ mastery \in {<<d>> : d \in MasteryInputs}
  /\ req = [r \in Reqs |-> IdleReq]
  /\ job = IdleJob
  /\ out = NoResp
  /\ submits = 0
  /\ recomputed = {}
  /\ passedOnce = {}
  /\ cleanup = IdleCleanup

\* topicMastery.save(): the pre-save hook, then the write
SaveMastery(i) ==
  /\ mastery' = [mastery EXCEPT ![i] = MasteryPreSave(@, now)]
  /\ UNCHANGED <<now, problems, users, recs, progress, req, job, out, submits,
                 recomputed, passedOnce, cleanup>>

MasteryNext == \E i \in Indices(mastery) : SaveMastery(i)

MasterySpec == MasteryInit /\ [][MasteryNext]_vars

(* ------------------ the policy on any stored records ------------------ *)
PolicyLevels == {0, 29, 30, 59, 60, 69, 70, 80}

PolicyTopics == {"arrays", "strings", "trees"}

\* a stored TopicMastery record; the policy reads its userId, topic and
\* masteryLevel only
StoredMastery(u, t, l) ==
  [NewMastery(u, t) EXCEPT !.masteryLevel = l,
                           !.recommendedDifficulty = RecommendedDifficulty(l),
                           !.lastUpdated = 0]

MasteryPool == {StoredMastery(u, t, l) : u \in Users, t \in PolicyTopics, l \in PolicyLevels}

\* the TopicMastery collection: at most one record per (userId, topic)
PolicyMasteries ==
  {<<>>} \cup {<<a>> : a \in MasteryPool}
         \cup {<<x[1], x[2]>> : x \in {y \in MasteryPool \X MasteryPool :
                                         y[1].userId # y[2].userId \/ y[1].topic # y[2].topic}}

\* the Progress record one failed submission leaves
AttemptedProgress(u, p) ==
  LET fresh == NewProgress(u, p, SeedProblems[p].difficulty, SeedProblems[p].topic)
      attempt == [attemptNumber |-> 1, result |-> "failed", timestamp |-> 0]
  IN ProgressPreSave(StatusUpdate([fresh EXCEPT !.attempts = <<attempt>>], FALSE, 0), 0)

ProgressPool ==
  {AttemptedProgress("u1", "p1"), AttemptedProgress("u1", "p3"), AttemptedProgress("u2", "p2")}

PolicyInit ==
  /\ now = 0
  /\ problems = SeedProblems
  /\ users = SeedUsers
  /\ recs = EmptyBag
  /\ progress \in {SetToBag(S) : S \in SUBSET ProgressPool}
  /\ mastery \in PolicyMasteries
  /\ req = [r \in Reqs |-> IdleReq]
  /\ job = IdleJob
  /\ out = NoResp
  /\ submits = 0
  /\ recomputed = {}
  /\ passedOnce = {}
  /\ cleanup = IdleCleanup

\* one daily-recommendation handler at a time
PolicyNext ==
  \/ Deliver
  \/ Ready /\ (\A q \in Reqs : Free(q)) /\ \E r \in Reqs, u \in Users : DailyFind(r, u)
  \/ Ready /\ \E r \in Reqs : DailyGenerate(r)
  \/ Ready /\ \E r \in Reqs : DailySave(r)

PolicySpec == PolicyInit /\ [][PolicyNext]_vars

(* ---------------- the policy on fully covered topics ------------------ *)
\* TopicMastery records of a user for the first n topics of allTopics, the
\* first with masteryLevel l and the others with 80
MasteryRow(u, n, l) ==
  [i \in 1..n |-> StoredMastery(u, allTopics[i], IF i = 1 THEN l ELSE 80)]

RuleMasteries ==
  {MasteryRow("u1", n1, l1) \o MasteryRow("u2", n2, l2) :
     n1 \in {7, 8}, l1 \in {40, 80}, n2 \in {7, 8}, l2 \in {40, 80}}

RuleInit ==
  /\ now = 0
  /\ problems = SeedProblems
  /\ users = SeedUsers
  /\ recs = EmptyBag
  /\ progress \in {SetToBag(S) : S \in SUBSET ProgressPool}
  /\ mastery \in RuleMasteries
  /\ req = [r \in Reqs |-> IdleReq]
  /\ job = IdleJob
  /\ out = NoResp
  /\ submits = 0
  /\ recomputed = {}
  /\ passedOnce = {}
  /\ cleanup = IdleCleanup

RuleSpec == RuleInit /\ [][PolicyNext]_vars

\* the policy with lookups that may fail
DegradedNext ==
  \/ Deliver
  \/ Ready /\ (\A q \in Reqs : Free(q)) /\ \E r \in Reqs, u \in Users : DailyFind(r, u)
  \/ Ready /\ \E r \in Reqs : DailyGenerate(r)
  \/ Ready /\ \E r \in Reqs, lookup \in Lookups : DailyGenerateFailing(r, lookup)
  \/ Ready /\ \E r \in Reqs : DailySave(r)

DegradedSpec == RuleInit /\ [][DegradedNext]_vars

(* ------------- submissions for an existing Progress record ------------ *)
\* the stores after one failed submission of u1 for p1
ResubmitInit ==
  /\ now = 0
  /\ problems = SeedProblems
  /\ users = SeedUsers
  /\ recs = EmptyBag
  /\ progress = SetToBag({AttemptedProgress("u1", "p1")})
  /\ mastery = updateTopicMastery(<<>>, SetToBag({AttemptedProgress("u1", "p1")}),
                                  "u1", SeedProblems["p1"].topic, 0)
  /\ req = [r \in Reqs |-> IdleReq]
  /\ job = IdleJob
  /\ out = NoResp
  /\ submits = 0
  /\ recomputed = {<<"u1", SeedProblems["p1"].topic>>}
  /\ passedOnce = {}
  /\ cleanup = IdleCleanup

ResubmitSpec == ResubmitInit /\ [][SubmitNext]_vars

(* ------------------- the selector on any catalogue -------------------- *)

\* the Problem collection with any topic, difficulty and isActive flag
SelectorCatalogs ==
  [Problems -> [topic : SelectorTopics, difficulty : Tiers, isActive : BOOLEAN,
                testCases : {1}]]

SelectorMasteries ==
  {<<>>} \cup {<<StoredMastery("u1", t, l)>> : t \in SelectorTopics, l \in {0, 30, 60}}

SelectorInit ==
  /\ now = 0
  /\ problems \in SelectorCatalogs
  /\ users = SeedUsers
  /\ recs = EmptyBag
  /\ progress \in {EmptyBag, SetToBag({AttemptedProgress("u1", "p1")})}
  /\ mastery \in SelectorMasteries
  /\ req = [r \in Reqs |-> IdleReq]
  /\ job = IdleJob
  /\ out = NoResp
  /\ submits = 0
  /\ recomputed = {}
  /\ passedOnce = {}
  /\ cleanup = IdleCleanup

SelectorSpec == SelectorInit /\ [][PolicyNext]_vars

(* ------------------ both creators on any catalogue -------------------- *)
CreateCatalogs ==
  [Problems -> [topic : SelectorTopics, difficulty : {"easy", "medium"},
                isActive : {TRUE}, testCases : {1}]]

CreateInit ==
  /\ now = 0
  /\ problems \in CreateCatalogs
  /\ users = SeedUsers
  /\ recs = EmptyBag
  /\ progress = EmptyBag
  /\ mastery = <<>>
  /\ req = [r \in Reqs |-> IdleReq]
  /\ job = IdleJob
  /\ out = NoResp
  /\ submits = 0
  /\ recomputed = {}
  /\ passedOnce = {}
  /\ cleanup = IdleCleanup

\* daily-recommendation requests, one at a time, overlap with the cron job
CreateNext ==
  \/ Deliver
  \/ Ready /\ (\A q \in Reqs : Free(q)) /\ \E r \in Reqs, u \in Users : DailyFind(r, u)
  \/ Ready /\ \E r \in Reqs : DailyGenerate(r)
  \/ Ready /\ \E r \in Reqs : DailySave(r)
  \/ Ready /\ JobStart
  \/ Ready /\ JobFind
  \/ Ready /\ JobGenerate
  \/ Ready /\ JobSave

CreateSpec == CreateInit /\ [][CreateNext]_vars

(* ------------------ the cron job on any catalogue --------------------- *)
\* the seeded catalogue, or the same catalogue with every problem soft
\* deleted; u1 with or without a record for the day
JobInit ==
  /\ now = 0
  /\ problems \in {[p \in Problems |-> [SeedProblems[p] EXCEPT !.isActive = a]] :
                     a \in BOOLEAN}
  /\ users = SeedUsers
  /\ recs \in {EmptyBag, SetToBag({[userId |-> "u1", date |-> 0,
                                    recommendedProblems |->
                                      <<[problemId |-> "p1", difficulty |-> "easy",
                                         topic |-> "arrays",
                                         reason |-> "daily_recommendation",
                                         priority |-> 1, score |-> 100]>>,
                                    selectedProblem |-> "p1", completed |-> FALSE,
                                    skipped |-> FALSE]})}
  /\ progress = EmptyBag
  /\ mastery = <<>>
  /\ req = [r \in Reqs |-> IdleReq]
  /\ job = IdleJob
  /\ out = NoResp
  /\ submits = 0
  /\ recomputed = {}
  /\ passedOnce = {}
  /\ cleanup = IdleCleanup

JobSpec == JobInit /\ [][RecNext]_vars

(* ------------------------------ streaks -------------------------------- *)
\* find({userId, date: {$gte: thirtyDaysAgo}}): the records of the last 30
\* days (record dates are midnights, the call is made later in day d)
recentRecommendations(u, d) ==
  {x \in BagToSet(recs) : x.userId = u /\ x.date > d - StreakWindow}

\* variant: the loop counts every completed day of the window
RECURSIVE StreakLoop_NoBreak(_, _)
StreakLoop_NoBreak(day, i) ==
  IF i < StreakWindow
  THEN (IF day[i] THEN 1 ELSE 0) + StreakLoop_NoBreak(day, i + 1)
  ELSE 0

\* for (let i = 0; i < 30; i++) { if (completed on today - i) currentStreak++
\* else break }
RECURSIVE StreakLoop(_, _)
StreakLoop(day, i) ==
  IF i < StreakWindow /\ day[i] THEN 1 + StreakLoop(day, i + 1) ELSE 0

\* the loop of GET /streak over the records it fetched
RouteCurrentStreak(u, d) ==
  StreakLoop([i \in 0..(StreakWindow - 1) |->
                \E x \in recentRecommendations(u, d) : x.date = d - i /\ x.completed], 0)

\* the loop of the cleanup job: findOne({userId, date: checkDate, completed: true})
JobCurrentStreak(u, d) ==
  StreakLoop([i \in 0..(StreakWindow - 1) |->
                \E x \in BagToSet(recs) :
                   x.userId = u /\ x.date = d - i /\ x.completed], 0)

\* GET /streak: the auth middleware loads req.user
StreakAuth(r, u) ==
  /\ CanStart(r)
  /\ req' = [req EXCEPT ![r] = [IdleReq EXCEPT !.pc = "streak", !.userId = u,
                                  !.longestStreak = users[u].longestStreak]]
  /\ UNCHANGED <<now, problems, users, recs, progress, mastery, job, out, submits, recomputed, passedOnce, cleanup>>

\* variant: the streak request marks the day's record completed
StreakRun_ClosesDay(r) ==
  /\ req[r].pc = "streak"
  /\ LET u == req[r].userId
         currentStreak == RouteCurrentStreak(u, now)
         today == {x \in BagToSet(recs) : x.userId = u /\ x.date = now}
     IN /\ users' = [users EXCEPT
                       ![u].currentStreak = currentStreak,
                       ![u].longestStreak = Max2(currentStreak, req[r].longestStreak)]
        /\ recs' = [x \in (BagToSet(recs) \ today)
                            \cup {[y EXCEPT !.completed = TRUE] : y \in today} |-> 1]
        /\ out' = [NoResp EXCEPT !.kind = "streak", !.userId = u, !.status = 200,
                                 !.currentStreak = currentStreak]
  /\ req' = [req EXCEPT ![r] = IdleReq]
  /\ UNCHANGED <<now, problems, progress, mastery, job, submits, recomputed, passedOnce, cleanup>>

\* GET /streak: the handler computes the streak, updates the user, answers
StreakRun(r) ==
  /\ req[r].pc = "streak"
  /\ LET u == req[r].userId
         currentStreak == RouteCurrentStreak(u, now)
     IN /\ users' = [users EXCEPT
                       ![u].currentStreak = currentStreak,
                       ![u].longestStreak = Max2(currentStreak, req[r].longestStreak)]
        /\ out' = [NoResp EXCEPT !.kind = "streak", !.userId = u, !.status = 200,
                                 !.currentStreak = currentStreak]
  /\ req' = [req EXCEPT ![r] = IdleReq]
  /\ UNCHANGED <<now, problems, recs, progress, mastery, job, submits, recomputed, passedOnce, cleanup>>

\* cleanup job: deleteMany({date: {$lt: thirtyDaysAgo}}), then
\* User.find({isActive: true})
CleanupStart ==
  /\ cleanup.pc = "idle"
  /\ recs' = [x \in {y \in BagToSet(recs) : y.date > now - StreakWindow} |-> recs[x]]
  /\ cleanup' = [pc |-> "users",
                 queue |-> [i \in 1..Len(UserOrder) |->
                              [userId |-> UserOrder[i],
                               longestStreak |-> users[UserOrder[i]].longestStreak]]]
  /\ UNCHANGED <<now, problems, users, progress, mastery, req, job, out, submits, recomputed, passedOnce>>

\* cleanup job: one pass of the loop over activeUsers
CleanupUser ==
  /\ cleanup.pc = "users"
  /\ LET user == Head(cleanup.queue)
         currentStreak == JobCurrentStreak(user.userId, now)
     IN users' = [users EXCEPT
                    ![user.userId].currentStreak = currentStreak,
                    ![user.userId].longestStreak = Max2(currentStreak, user.longestStreak)]
  /\ cleanup' = IF Len(cleanup.queue) = 1 THEN IdleCleanup
                ELSE [cleanup EXCEPT !.queue = Tail(@)]
  /\ UNCHANGED <<now, problems, recs, progress, mastery, req, job, out, submits, recomputed, passedOnce>>

\* record stores of u1: a run of completed days back from day 0, then a day
\* without a record or with an open one, then further completed days
StreakStore(run, open, more) ==
  SetToBag({[NewRecommendation("u1", -i, "p1") EXCEPT !.completed = TRUE] :
               i \in (0..(run - 1)) \cup ((run + 1)..(run + more))}
           \cup (IF open THEN {NewRecommendation("u1", -run, "p1")} ELSE {}))

StreakStores ==
  {StreakStore(run, open, more) : run \in 0..MaxRun, open \in BOOLEAN, more \in 0..1}

PriorLongest == {0, 2}

StreakInit ==
  /\ now = 0
  /\ problems = SeedProblems
  /\ users \in {[SeedUsers EXCEPT !["u1"].longestStreak = l] : l \in PriorLongest}
  /\ recs \in StreakStores
  /\ progress = EmptyBag
  /\ mastery = <<>>
  /\ req = [r \in Reqs |-> IdleReq]
  /\ job = IdleJob
  /\ out = NoResp
  /\ submits = 0
  /\ recomputed = {}
  /\ passedOnce = {}
  /\ cleanup = IdleCleanup

\* streak requests overlap with each other, with the cleanup job and with
\* the change of day
StreakNext ==
  \/ Deliver
  \/ Ready /\ \E r \in Reqs, u \in Users : StreakAuth(r, u)
  \/ Ready /\ \E r \in Reqs : StreakRun(r)
  \/ Ready /\ CleanupStart
  \/ Ready /\ CleanupUser
  \/ Ready /\ Tick

StreakSpec == StreakInit /\ [][StreakNext]_vars

(* ---------------- every writer and reader of the records -------------- *)
\* the stores when u1 holds a record created StreakWindow days ago and one
\* created yesterday
FrameInit ==
  /\ now = 0
  /\ problems = SeedProblems
  /\ users = SeedUsers
  /\ recs = SetToBag({NewRecommendation("u1", -StreakWindow, "p1"),
                      NewRecommendation("u1", -1, "p2")})
  /\ progress = EmptyBag
  /\ mastery = <<>>
  /\ req = [r \in Reqs |-> IdleReq]
  /\ job = IdleJob
  /\ out = NoResp
  /\ submits = 0
  /\ recomputed = {}
  /\ passedOnce = {}
  /\ cleanup = IdleCleanup

\* no handler and no job is in progress
Quiet == (\A q \in Reqs : Free(q)) /\ job.pc = "idle" /\ cleanup.pc = "idle"

\* one at a time: the route and the cron job create records, submissions
\* and mastery recomputations run, streaks are computed by the route and by
\* the cleanup job, the cleanup job deletes, the day changes
FrameNext ==
  \/ Deliver
  \/ Ready /\ Quiet /\ \E r \in Reqs, u \in Users : DailyFind(r, u)
  \/ Ready /\ \E r \in Reqs : DailyGenerate(r)
  \/ Ready /\ \E r \in Reqs : DailySave(r)
  \/ Ready /\ Quiet /\ JobStart
  \/ Ready /\ JobFind
  \/ Ready /\ JobGenerate
  \/ Ready /\ JobSave
  \/ Ready /\ Quiet /\ submits < MaxEnvSubmits
           /\ \E u \in Users, p \in Problems, b \in Bodies, k \in 0..1 : recordAttempt(u, p, b, k)
  \/ Ready /\ Quiet /\ \E u \in Users, t \in StoredTopics : MasteryJob(u, t)
  \/ Ready /\ Quiet /\ \E r \in Reqs, u \in Users : StreakAuth(r, u)
  \/ Ready /\ \E r \in Reqs : StreakRun(r)
  \/ Ready /\ Quiet /\ CleanupStart
  \/ Ready /\ CleanupUser
  \/ Ready /\ Quiet /\ Tick

FrameSpec == FrameInit /\ [][FrameNext]_vars

(* ------------------------------ properties ---------------------------- *)
\* the stored Progress records of (u, p) in the collection prog
StoredProgress(prog, u, p) == {x \in BagToSet(prog) : x.userId = u /\ x.problemId = p}

\* the statistics of the stored TopicMastery records of (u, t)
CoreOf(ms, u, t) ==
  {[masteryLevel |-> ms[i].masteryLevel, successRates |-> ms[i].successRates,
    problemsAttempted |-> ms[i].problemsAttempted,
    problemsSolved |-> ms[i].problemsSolved,
    recommendedDifficulty |-> ms[i].recommendedDifficulty] :
     i \in {j \in Indices(ms) : ms[j].userId = u /\ ms[j].topic = t}}

TotalAttempted(doc) ==
  doc.problemsAttempted["easy"] + doc.problemsAttempted["medium"]
    + doc.problemsAttempted["hard"]

\* C1: in every reachable state there is at most one DailyRecommendation
\* record per (userId, day), however the daily-recommendation handlers and
\* the cron job interleave.
C1_OneRecordPerUserDay ==
  \A u \in Users, d \in 0..MaxTime : RecCount(u, d) <= 1

\* the cron job lost the insert for a user to a request of the same day
C1_Witness ==
  /\ job.errorCount > 0
  /\ \E u \in Users : RecCount(u, job.today) = 1

\* C2: a daily-recommendation call for a (user, day) that already has a
\* record answers 200 with that record's selectedProblem and writes to no
\* collection; the policy and the selector are not run for it, whatever
\* attempts and mastery updates happened since the record was created.
C2_ExistingRecordReturned ==
  [][/\ (out = NoResp /\ out'.kind = "daily" /\ out'.hit)
          => /\ UNCHANGED <<recs, progress, mastery, users, problems, req>>
             /\ out'.status = 200
             /\ \E x \in RecDocs(out'.userId, now) : x.selectedProblem = out'.problem
     /\ \A r \in Reqs :
          (req[r].pc = "idle" /\ req'[r].pc = "d_generate")
             => RecCount(req'[r].userId, req'[r].today) = 0]_vars

\* the stored problem is answered although the policy would now choose
\* another one
C2_Witness ==
  /\ out.kind = "daily" /\ out.hit /\ out.status = 200
  /\ BagToSet(UserProgress(progress, out.userId)) # {}
  /\ out.problem \notin generateDailyRecommendation(out.userId)

\* C3: a daily-recommendation call answered while a record of the user and
\* day is stored, the call that lost the insert to a concurrent one
\* included, answers 200 with the stored record's problem.
C3_LoserReturnsWinner ==
  (out.kind = "daily" /\ RecCount(out.userId, now) > 0)
     => /\ out.status = 200
        /\ \E x \in RecDocs(out.userId, now) : x.selectedProblem = out.problem

\* C4: every stored Progress record has totalAttempts = length(attempts).
C4_TotalAttemptsIsLength ==
  \A x \in BagToSet(progress) : x.totalAttempts = Len(x.attempts)

C4_Witness ==
  \E x \in BagToSet(progress) : Len(x.attempts) >= 2 /\ x.totalAttempts = Len(x.attempts)

\* C5: once a Progress record has a solvedDate, no later step changes it.
C5_SolvedDateKept ==
  [][\A u \in Users, p \in Problems :
       \A x \in StoredProgress(progress, u, p) :
          x.solvedDate # NoDate
             => /\ StoredProgress(progress', u, p) # {}
                /\ \A y \in StoredProgress(progress', u, p) : y.solvedDate = x.solvedDate]_vars

\* a record solved on one day has an attempt of a later day
C5_Witness ==
  \E x \in BagToSet(progress) :
     /\ x.solvedDate # NoDate
     /\ \E k \in Indices(x.attempts) :
           x.attempts[k].timestamp > x.solvedDate /\ x.attempts[k].result = "passed"

\* C6: once a Progress record has status "solved", every later step leaves
\* the status "solved".
C6_SolvedStaysSolved ==
  [][\A u \in Users, p \in Problems :
       \A x \in StoredProgress(progress, u, p) :
          x.status = "solved"
             => \A y \in StoredProgress(progress', u, p) : y.status = "solved"]_vars

\* C7: profile.totalSolved of a user grows by exactly 1 in the step of the
\* user's first passing attempt on a problem, which leaves the Progress
\* record "solved", and by 0 in every other step.
C7_FirstPassCountsOnce ==
  [][\A u \in Users :
       LET first == {p \in Problems : <<u, p>> \in passedOnce' \ passedOnce}
       IN /\ users'[u].totalSolved - users[u].totalSolved = Cardinality(first)
          /\ \A p \in first :
                /\ StoredProgress(progress', u, p) # {}
                /\ \A y \in StoredProgress(progress', u, p) : y.status = "solved"]_vars

\* C8: updateTopicMastery run again for a (user, topic) with no
\* recordAttempt of the user since the last run leaves masteryLevel,
\* successRates, problemsAttempted, problemsSolved and recommendedDifficulty
\* as they are.
C8_RecomputeIdempotent ==
  [][\A u \in Users, t \in StoredTopics :
       (<<u, t>> \in recomputed /\ MasteryJob(u, t))
          => CoreOf(mastery', u, t) = CoreOf(mastery, u, t)]_vars

\* a record recomputed after the last attempt on its topic
C8_Witness ==
  \E i \in Indices(mastery) :
     /\ <<mastery[i].userId, mastery[i].topic>> \in recomputed
     /\ BagToSet(TopicProgress(progress, mastery[i].userId, mastery[i].topic)) # {}
     /\ \A x \in BagToSet(TopicProgress(progress, mastery[i].userId, mastery[i].topic)) :
           \A k \in Indices(x.attempts) : x.attempts[k].timestamp < mastery[i].lastUpdated

\* C9: every stored TopicMastery record has an integer masteryLevel in
\* 0..100 whatever the per-tier counts are, and a save with zero attempted
\* problems keeps the masteryLevel the record had.
C9_MasteryLevelBounded ==
  /\ [](\A i \in Indices(mastery) : mastery[i].masteryLevel \in 0..100)
  /\ [][\A i \in Indices(mastery) :
          TotalAttempted(mastery[i]) = 0
             => mastery'[i].masteryLevel = mastery[i].masteryLevel]_vars

\* a saved record whose rounded score exceeded 100
C9_Witness ==
  \E i \in Indices(mastery) :
     /\ mastery[i].lastUpdated # NoDate
     /\ TotalAttempted(mastery[i]) > 0
     /\ RoundedScore(mastery[i].problemsSolved, mastery[i].problemsAttempted) > 100
     /\ mastery[i].masteryLevel = 100

\* C10: for a user without Progress records the policy asks the selector
\* for ("arrays", "easy"), whatever TopicMastery records are stored.
C10_NewUserArraysEasy ==
  [][\A r \in Reqs :
       (/\ req[r].pc = "d_generate"
        /\ req'[r].pc = "d_save"
        /\ BagToSet(UserProgress(progress, req[r].userId)) = {})
          => /\ req'[r].request = [topic |-> "arrays", difficulty |-> "easy"]
             /\ req'[r].problemId \in getRandomProblem(problems, "arrays", "easy")]_vars

\* a user without Progress and with a weak record of another topic is
\* asked an easy arrays problem
C10_Witness ==
  \E r \in Reqs :
     /\ req[r].pc = "d_save"
     /\ BagToSet(UserProgress(progress, req[r].userId)) = {}
     /\ \E i \in Indices(mastery) :
           /\ mastery[i].userId = req[r].userId
           /\ mastery[i].topic # "arrays"
           /\ mastery[i].masteryLevel < 70
     /\ req[r].request = [topic |-> "arrays", difficulty |-> "easy"]

\* the user has the TopicMastery records arrays 80 and strings 30 and
\* Progress records in arrays and strings only
ArraysStrongStringsWeak(u) ==
  /\ {<<mastery[i].topic, mastery[i].masteryLevel>> :
        i \in {j \in Indices(mastery) : mastery[j].userId = u}}
       = {<<"arrays", 80>>, <<"strings", 30>>}
  /\ {x.topic : x \in BagToSet(UserProgress(progress, u))} = {"arrays", "strings"}

\* C11 as the code decides it: for that user the policy asks for topic
\* "strings" with difficulty "medium" (masteryLevel 30 is not below 30).
C11_StringsMedium ==
  [][\A r \in Reqs :
       (/\ req[r].pc = "d_generate"
        /\ req'[r].pc = "d_save"
        /\ ArraysStrongStringsWeak(req[r].userId))
          => req'[r].request = [topic |-> "strings", difficulty |-> "medium"]]_vars

\* C11 as stated: for that user the policy asks for topic "strings" with
\* difficulty "easy".
C11_StringsEasy ==
  [][\A r \in Reqs :
       (/\ req[r].pc = "d_generate"
        /\ req'[r].pc = "d_save"
        /\ ArraysStrongStringsWeak(req[r].userId))
          => req'[r].request = [topic |-> "strings", difficulty |-> "easy"]]_vars

C11_Witness ==
  \E r \in Reqs :
     /\ req[r].pc = "d_save"
     /\ ArraysStrongStringsWeak(req[r].userId)
     /\ req[r].request = [topic |-> "strings", difficulty |-> "medium"]

\* the active problems of the stored catalogue that match (t, d)
ActiveMatches(t, d) ==
  {p \in Problems : /\ problems[p].isActive
                    /\ problems[p].difficulty = d
                    /\ (t # NoTopic => problems[p].topic = t)}

\* C12: getRandomProblem never returns an inactive problem; when active
\* problems match the topic (if given) and difficulty its possible results
\* are exactly the matching active problems; when none matches and the
\* catalogue has an active problem it returns an active problem.  The
\* problem a handler takes from it is one of these.
C12_SelectorActive ==
  /\ [](\A t \in SelectorTopics \cup {NoTopic}, d \in Tiers :
          LET res == getRandomProblem(problems, t, d)
          IN /\ \A p \in res \cap Problems : problems[p].isActive
             /\ ActiveMatches(t, d) # {} => res = ActiveMatches(t, d)
             /\ (ActiveMatches(t, d) = {} /\ (\E p \in Problems : problems[p].isActive))
                   => (res # {} /\ \A p \in res : p \in Problems /\ problems[p].isActive))
  /\ [][\A r \in Reqs :
          (req[r].pc = "d_generate" /\ req'[r].pc = "d_save")
             => LET q == req'[r].request
                IN /\ problems[req'[r].problemId].isActive
                   /\ ActiveMatches(q.topic, q.difficulty) # {}
                         => req'[r].problemId \in ActiveMatches(q.topic, q.difficulty)]_vars

\* the fallback chose an active problem although an inactive one matches
C12_Witness ==
  \E r \in Reqs :
     /\ req[r].pc = "d_save"
     /\ ActiveMatches(req[r].request.topic, req[r].request.difficulty) = {}
     /\ \E p \in Problems : /\ ~problems[p].isActive
                            /\ problems[p].difficulty = req[r].request.difficulty
                            /\ problems[p].topic = req[r].request.topic
     /\ problems[req[r].problemId].isActive

\* C13: a daily-recommendation call on a catalogue without active problems
\* is answered with the not-found status (404, as the other handlers answer
\* a missing problem) and persists no record for the user and day.
C13_EmptyCatalogNotFound ==
  (out.kind = "daily" /\ ~out.hit /\ \A p \in Problems : ~problems[p].isActive)
     => (out.status = 404 /\ RecCount(out.userId, now) = 0)

\* the stored completed flag of the user's record of a day
CompletedOn(u, d) ==
  \E x \in BagToSet(recs) : x.userId = u /\ x.date = d /\ x.completed

\* the greatest k <= 30 such that each of the k days back from d, d
\* included, has a completed record
ConsecutiveCompleted(u, d) ==
  LET K == {k \in 0..30 : \A i \in 0..(k - 1) : CompletedOn(u, d - i)}
  IN CHOOSE k \in K : \A j \in K : j <= k

\* C14: the current streak computed by the streak request and by the streak
\* job for a user is the number of consecutive days, counted back from today
\* inclusive, whose record is completed, stopping at the first day without a
\* completed record and never more than 30; with completed records on the
\* three days up to today and none on the fourth it is 3.
C14_CurrentStreak ==
  [][/\ \A r \in Reqs :
          (req[r].pc = "streak" /\ req'[r].pc = "idle")
            => LET u == req[r].userId
               IN /\ out'.currentStreak = ConsecutiveCompleted(u, now)
                  /\ users'[u].currentStreak = ConsecutiveCompleted(u, now)
                  /\ out'.currentStreak <= 30
                  /\ (/\ \A i \in 0..2 : CompletedOn(u, now - i)
                      /\ ~CompletedOn(u, now - 3)) => out'.currentStreak = 3
     /\ (cleanup.pc = "users" /\ cleanup' # cleanup)
          => LET u == Head(cleanup.queue).userId
             IN /\ users'[u].currentStreak = ConsecutiveCompleted(u, now)
                /\ (/\ \A i \in 0..2 : CompletedOn(u, now - i)
                    /\ ~CompletedOn(u, now - 3)) => users'[u].currentStreak = 3]_vars

\* a streak request has answered 3 for a user with completed records on the
\* three days up to today, none on the fourth and one on the fifth
C14_Witness ==
  /\ out.kind = "streak"
  /\ out.currentStreak = 3
  /\ \A i \in 0..2 : CompletedOn(out.userId, now - i)
  /\ ~CompletedOn(out.userId, now - 3)
  /\ CompletedOn(out.userId, now - 4)

PassEnds ==
  /\ job.pc \in {"j_find", "j_generate", "j_save"}
  /\ \/ job'.pc = "idle"
     \/ job'.pc = "j_find" /\ job'.queue = Tail(job.queue)

\* C16: the batch job takes its snapshot of users once and passes over it in
\* order, one pass per user; a pass for a user who has a record for the day
\* creates nothing and changes no count, a pass that creates a record adds
\* one to the success count only, and a pass that finds no record and
\* creates none adds one to the error count only; whatever the outcome the
\* job goes on with the next user.
C16_BatchCounts ==
  [][/\ (job.pc = "idle" /\ job'.pc # "idle")
          => job'.queue = UserOrder /\ job'.successCount = 0 /\ job'.errorCount = 0
     /\ (job.pc # "idle" /\ job' # job)
          => \/ PassEnds
             \/ job'.queue = job.queue /\ job'.pc # "idle"
     /\ PassEnds
          => LET u == Head(job.queue)
             IN /\ (job'.pc = "idle") = (Len(job.queue) = 1)
                /\ IF job.pc = "j_find"
                   THEN /\ RecCount(u, job.today) > 0
                        /\ recs' = recs
                        /\ job'.successCount = job.successCount
                        /\ job'.errorCount = job.errorCount
                   ELSE IF \E x \in BagToSet(recs') :
                             /\ x.userId = u /\ x.date = job.today
                             /\ CopiesIn(x, recs') > CopiesIn(x, recs)
                   THEN /\ job'.successCount = job.successCount + 1
                        /\ job'.errorCount = job.errorCount
                   ELSE /\ recs' = recs
                        /\ job'.successCount = job.successCount
                        /\ job'.errorCount = job.errorCount + 1]_vars

ProgCount(u, p) == SumOver(ProgDocs(u, p), [x \in ProgDocs(u, p) |-> CopiesIn(x, progress)])

\* C17: in every state there is at most one Progress record per (user,
\* problem), and a submission whose insert meets the uniqueness conflict of
\* an overlapping first submission is not answered with an error.
C17_OneProgressNoError ==
  /\ [](\A u \in Users, p \in Problems : ProgCount(u, p) <= 1)
  /\ [][\A r \in Reqs :
          (/\ req[r].pc = "s_save" /\ req'[r].pc # "s_save"
           /\ req[r].loaded = <<>>
           /\ req[r].language \in LanguageEnum
           /\ ProgCount(req[r].userId, req[r].problemId) > 0)
            => out'.status # 500 /\ req'[r].pc # "idle"]_vars

\* C18: an answer of the problem-detail request or of the
\* daily-recommendation request carries the solution of a problem only when
\* the requesting user has a Progress record for it with status "solved".
C18_SolutionWithheld ==
  (/\ out.kind \in {"detail", "daily"}
   /\ out.status = 200
   /\ "solution" \in out.paths)
    => \E x \in ProgDocs(out.userId, out.problem) : x.status = "solved"

\* C19: every stored DailyRecommendation record, whether the request or the
\* job created it, has exactly one recommendedProblems entry; the entry has
\* reason "daily_recommendation", priority 1, score 100 and the topic and
\* difficulty of the problem it names, and selectedProblem is that problem.
C19_OneTaggedEntry ==
  \A x \in BagToSet(recs) :
    /\ Len(x.recommendedProblems) = 1
    /\ LET e == x.recommendedProblems[1]
       IN /\ e.reason = "daily_recommendation"
          /\ e.priority = 1
          /\ e.score = 100
          /\ e.problemId \in Problems
          /\ e.topic = problems[e.problemId].topic
          /\ e.difficulty = problems[e.problemId].difficulty
          /\ x.selectedProblem = e.problemId

\* the request has created a record and the job has created another; one of
\* them names a problem that is not an easy arrays problem
C19_Witness ==
  /\ out.kind = "daily" /\ ~out.hit /\ out.status = 200
  /\ job.successCount >= 1
  /\ \E x \in BagToSet(recs) : x.userId = out.userId /\ x.selectedProblem = out.problem
  /\ \E x \in BagToSet(recs) :
       /\ x.userId # out.userId
       /\ problems[x.selectedProblem].topic = "strings"
       /\ problems[x.selectedProblem].difficulty = "medium"

\* the user's Progress records of a topic and tier
TierProgress(u, t, d) ==
  {x \in BagToSet(progress) : x.userId = u /\ x.topic = t /\ x.difficulty = d}

\* C20: when a submission has been recorded and answered with success, the
\* TopicMastery record of the user and of the topic stored in the written
\* Progress record exists and has, for each tier, problemsAttempted = the
\* number of the user's Progress records of that topic and tier and
\* problemsSolved = the number of those with status "solved".
C20_MasteryCountsMatch ==
  (out.kind = "submit" /\ out.status = 200)
    => \A x \in ProgDocs(out.userId, out.problem) :
         \E i \in Indices(mastery) :
           /\ mastery[i].userId = out.userId
           /\ mastery[i].topic = x.topic
           /\ \A d \in Tiers :
                /\ mastery[i].problemsAttempted[d]
                     = Cardinality(TierProgress(out.userId, x.topic, d))
                /\ mastery[i].problemsSolved[d]
                     = Cardinality({y \in TierProgress(out.userId, x.topic, d) :
                                      y.status = "solved"})

\* round(min(S/A*100*0.6 + (M*1.5 + H*2.5)/max(S,1)*25 + min(A/10,1)*15, 100))
\* in exact arithmetic, halves rounded up
FormulaLevel(solved, attempted) ==
  LET S == solved["easy"] + solved["medium"] + solved["hard"]
      A == attempted["easy"] + attempted["medium"] + attempted["hard"]
      S1 == IF S > 1 THEN S ELSE 1
      A10 == IF A < 10 THEN A ELSE 10
      \* the three terms over the common denominator 2 * A * S1
      base == 120 * S * S1
      bonus == (75 * solved["medium"] + 125 * solved["hard"]) * A
      consistency == 3 * A10 * A * S1
      den == 2 * A * S1
      num == IF base + bonus + consistency > 100 * den THEN 100 * den
             ELSE base + bonus + consistency
  IN (2 * num + den) \div (2 * den)

\* C21: a recomputation of a record whose counts have totalAttempted > 0
\* and solved[tier] <= attempted[tier] in every tier stores
\* masteryLevel = round(min(totalSolved/totalAttempted*100*0.6
\*   + (solved.medium*1.5 + solved.hard*2.5)/max(totalSolved,1)*25
\*   + min(totalAttempted/10,1)*15, 100)).
C21_LevelIsFormula ==
  [][\A i \in Indices(mastery) :
       (/\ mastery[i].problemsAttempted["easy"] + mastery[i].problemsAttempted["medium"]
             + mastery[i].problemsAttempted["hard"] > 0
        /\ \A d \in Tiers : mastery[i].problemsSolved[d] <= mastery[i].problemsAttempted[d])
         => mastery'[i].masteryLevel
              = FormulaLevel(mastery[i].problemsSolved, mastery[i].problemsAttempted)]_vars

\* the user's TopicMastery records in the order the store returns them
MasteriesOf(u) == UserMasteries(mastery, u)

\* the state of a handler slot that is about to run the policy for a user
\* with a Progress record
PolicyRunsWithProgress(r) ==
  /\ req[r].pc = "d_generate"
  /\ BagToSet(UserProgress(progress, req[r].userId)) # {}

\* C22: for a user with a Progress record and a TopicMastery record below
\* 70 the policy asks for the topic of the record with the lowest
\* masteryLevel among those below 70, the first of them in store order when
\* several have that level, with difficulty easy below 30, medium from 30
\* to 59 and hard from 60.
C22_WeakestTopic ==
  [][\A r \in Reqs :
       (PolicyRunsWithProgress(r) /\ req'[r].pc = "d_save")
         => LET tms == MasteriesOf(req[r].userId)
                weak == {i \in 1..Len(tms) : tms[i].masteryLevel < 70}
            IN weak # {}
                 => \E i \in weak :
                      /\ \A j \in weak : tms[j].masteryLevel >= tms[i].masteryLevel
                      /\ \A j \in weak : tms[j].masteryLevel = tms[i].masteryLevel => i <= j
                      /\ req'[r].request.topic = tms[i].topic
                      /\ req'[r].request.difficulty
                           = CASE tms[i].masteryLevel < 30 -> "easy"
                               [] tms[i].masteryLevel \in 30..59 -> "medium"
                               [] OTHER -> "hard"]_vars

\* a user with a Progress record and two records of the same level below 70
\* has been asked the topic of the first
C22_Witness ==
  \E r \in Reqs :
     /\ req[r].pc = "d_save"
     /\ BagToSet(UserProgress(progress, req[r].userId)) # {}
     /\ LET tms == MasteriesOf(req[r].userId)
        IN /\ Len(tms) = 2
           /\ tms[1].masteryLevel = tms[2].masteryLevel
           /\ tms[1].masteryLevel \in 60..69
           /\ req[r].request = [topic |-> tms[1].topic, difficulty |-> "hard"]

\* C23: when the user has a Progress record and no TopicMastery record
\* below 70, the policy asks, with difficulty "easy", for the first topic of
\* arrays, strings, stack, queue, linked-list, trees, graphs,
\* dynamic-programming that has no record of masteryLevel >= 50 and no
\* Progress record of the user, if there is one; a topic so asked for is
\* never one the user has a Progress record in, nor sorting or searching.
C23_NewTopic ==
  [][\A r \in Reqs :
       (PolicyRunsWithProgress(r) /\ req'[r].pc = "d_save")
         => LET u == req[r].userId
                tms == MasteriesOf(u)
                order == <<"arrays", "strings", "stack", "queue", "linked-list", "trees",
                           "graphs", "dynamic-programming">>
                fresh == {k \in 1..8 :
                            /\ \A i \in 1..Len(tms) :
                                 tms[i].topic = order[k] => tms[i].masteryLevel < 50
                            /\ \A x \in BagToSet(progress) :
                                 x.userId = u => x.topic # order[k]}
            IN (\A i \in 1..Len(tms) : tms[i].masteryLevel >= 70)
                 => /\ fresh # {}
                      => \E k \in fresh :
                           /\ \A j \in fresh : k <= j
                           /\ req'[r].request = [topic |-> order[k], difficulty |-> "easy"]
                    /\ req'[r].request.topic \notin {"sorting", "searching"}
                    /\ \A x \in BagToSet(progress) :
                         x.userId = u => x.topic # req'[r].request.topic]_vars

\* a user with a Progress record in arrays only and a strings record of
\* masteryLevel >= 70 has been asked an easy stack problem
C23_Witness ==
  \E r \in Reqs :
     /\ req[r].pc = "d_save"
     /\ {x.topic : x \in BagToSet(UserProgress(progress, req[r].userId))} = {"arrays"}
     /\ LET tms == MasteriesOf(req[r].userId)
        IN Len(tms) = 1 /\ tms[1].topic = "strings" /\ tms[1].masteryLevel >= 70
     /\ req[r].request = [topic |-> "stack", difficulty |-> "easy"]

\* the topics of the policy's list for which the user has neither a record
\* of masteryLevel >= 50 nor a Progress record
FreshTopics(u) ==
  {t \in {"arrays", "strings", "stack", "queue", "linked-list", "trees", "graphs",
          "dynamic-programming"} :
     /\ \A i \in Indices(mastery) :
          (mastery[i].userId = u /\ mastery[i].topic = t) => mastery[i].masteryLevel < 50
     /\ \A x \in BagToSet(progress) : x.userId = u => x.topic # t}

\* the TopicMastery records of the user with masteryLevel below 70
WeakRecords(u) ==
  {i \in Indices(mastery) : mastery[i].userId = u /\ mastery[i].masteryLevel < 70}

\* C24: a run of the policy asks the selector for one (topic, difficulty),
\* decided by the first rule that applies of: new user (no Progress), weakest
\* topic (a record below 70), new topic (a fresh topic), fallback; the
\* fallback asks for no topic, is reached only when none of the first three
\* applies, and asks for "easy" when skillLevel is "beginner" and for
\* "medium" otherwise.
C24_FirstRuleDecides ==
  [][\A r \in Reqs :
       (req[r].pc = "d_generate" /\ req'[r].pc = "d_save")
         => LET u == req[r].userId
                q == req'[r].request
                newUser == BagToSet(UserProgress(progress, u)) = {}
                weakest == ~newUser /\ WeakRecords(u) # {}
                newTopic == ~newUser /\ WeakRecords(u) = {} /\ FreshTopics(u) # {}
                fallback == ~newUser /\ WeakRecords(u) = {} /\ FreshTopics(u) = {}
            IN /\ newUser => q = [topic |-> "arrays", difficulty |-> "easy"]
               /\ weakest => /\ \E i \in WeakRecords(u) : q.topic = mastery[i].topic
                             /\ q.difficulty \in Tiers
               /\ newTopic => q.topic \in FreshTopics(u) /\ q.difficulty = "easy"
               /\ fallback => q = [topic |-> NoTopic,
                                   difficulty |-> IF users[u].skillLevel = "beginner"
                                                  THEN "easy" ELSE "medium"]
               /\ q.topic = NoTopic => fallback]_vars

\* a user who is not a beginner, with a Progress record and all eight
\* topics at 80, has been asked a medium problem of no topic
C24_Witness ==
  \E r \in Reqs :
     /\ req[r].pc = "d_save"
     /\ users[req[r].userId].skillLevel # "beginner"
     /\ BagToSet(UserProgress(progress, req[r].userId)) # {}
     /\ WeakRecords(req[r].userId) = {}
     /\ FreshTopics(req[r].userId) = {}
     /\ req[r].request = [topic |-> NoTopic, difficulty |-> "medium"]

\* C25: when the user lookup, the TopicMastery lookup or a Progress lookup
\* of the policy fails, generateDailyRecommendation asks the selector for
\* ("arrays", "easy") and returns the problem the selector gives, and the
\* handler goes on to save it.
C25_DegradedArraysEasy ==
  [][\A r \in Reqs :
       (req[r].pc = "d_generate" /\ req'[r].failed # "none")
         => /\ req'[r].pc = "d_save"
            /\ req'[r].request = [topic |-> "arrays", difficulty |-> "easy"]
            /\ req'[r].problemId \in ActiveMatches("arrays", "easy")]_vars

\* the Progress lookup of the new-topic rule failed for a user who would
\* have been asked another topic; the handler holds an easy arrays problem
C25_Witness ==
  \E r \in Reqs :
     /\ req[r].pc = "d_save"
     /\ req[r].failed = "UserProgress.findOne"
     /\ PolicyRequest(users, mastery, progress, req[r].userId).topic # "arrays"
     /\ req[r].request = [topic |-> "arrays", difficulty |-> "easy"]
     /\ req[r].problemId \in ActiveMatches("arrays", "easy")

\* C26: whenever no submission is in progress, every stored Progress record
\* has totalAttempts equal to the length of its attempts sequence, also
\* after two submissions for the same existing record have overlapped.
C26_TotalAttemptsAfterOverlap ==
  (\A r \in Reqs : Free(r))
    => \A x \in BagToSet(progress) : x.totalAttempts = Len(x.attempts)

\* the counts and the level updateTopicMastery derives from the user's
\* stored Progress records of the topic
DerivedMastery(u, t) == updateTopicMastery(<<>>, progress, u, t, now)[1]

MasteryAgrees(m, d) ==
  /\ m.problemsAttempted = d.problemsAttempted
  /\ m.problemsSolved = d.problemsSolved
  /\ m.masteryLevel = d.masteryLevel

\* C27: whenever no submission and no recomputation is in progress, each
\* topic the user has Progress records in has a stored TopicMastery whose
\* counts and masteryLevel are those derived from these Progress records.
C27_MasteryMatchesProgress ==
  (\A r \in Reqs : Free(r))
    => \A u \in Users, t \in StoredTopics :
         BagToSet(TopicProgress(progress, u, t)) # {}
           => /\ MasteryIdx(u, t) # {}
              /\ \A i \in MasteryIdx(u, t) : MasteryAgrees(mastery[i], DerivedMastery(u, t))

\* the user's persisted Progress records whose solvedDate is set
SolvedRecords(u) == {x \in BagToSet(progress) : x.userId = u /\ x.solvedDate # NoDate}

\* C28: in every reachable state the user's profile.totalSolved equals the
\* number of the user's persisted Progress records whose solvedDate is set.
C28_TotalSolvedCountsRecords ==
  \A u \in Users :
    users[u].totalSolved
      = SumOver(SolvedRecords(u), [x \in SolvedRecords(u) |-> CopiesIn(x, progress)])

\* a step that adds exactly one record to the collection
RecordCreated == \E x \in BagToSet(recs') : recs' = recs (+) SetToBag({x})

\* a step that removes the records older than the window, all of them, and
\* nothing else
RecordsCleaned ==
  recs' = [x \in {y \in BagToSet(recs) : y.date > now - StreakWindow} |-> recs[x]]

\* C29: every stored DailyRecommendation has completed = false and
\* skipped = false; the collection changes only by the creation of one
\* record or by the cleanup deletion, and a step that writes a Progress
\* record, a TopicMastery or a user's profile leaves it unchanged.
C29_OnlyCreationAndCleanupWrite ==
  /\ [](\A x \in BagToSet(recs) : ~x.completed /\ ~x.skipped)
  /\ [][/\ recs' # recs => RecordCreated \/ RecordsCleaned
        /\ (progress' # progress \/ mastery' # mastery \/ users' # users) => recs' = recs]_vars

\* a streak answer is out after a submission was recorded, its mastery
\* recomputed, today's record created and the old record deleted
C29_Witness ==
  /\ out.kind = "streak"
  /\ BagToSet(progress) # {} /\ mastery # <<>>
  /\ \E x \in BagToSet(recs) : x.date = now
  /\ \A x \in BagToSet(recs) : x.date > now - StreakWindow

\* C30: a daily-recommendation answer never carries an inactive problem,
\* also when the problem was soft-deleted after it was stored as the day's
\* selectedProblem.
C30_DailyAnswerIsActive ==
  (out.kind = "daily" /\ out.status = 200) => problems[out.problem].isActive

====
